---------------------------- MODULE Spec2Model ----------------------------
(***************************************************************************)
(* Model of two programs of the repository:                                *)
(*   - sfyra/pkg/capi/cluster.go : NewCluster and Cluster.Health           *)
(*   - the events sink command (package main: main, run)                   *)
(* Time is counted in seconds.                                             *)
(***************************************************************************)
EXTENDS Integers, Sequences, FiniteSets, TLC

\* ------------------------------------------------------------------ bounds
\* longest time (seconds) one blocking call of an attempt (stream open, Recv) takes
MaxBlock == 25
\* most progress messages a health-check stream delivers before it ends
MaxMsgs == 2

\* ------------------------------------------------------- program constants
\* retry.Constant(5*time.Minute, ...): the total budget, in seconds
Budget == 300
\* retry.WithUnits(10*time.Second): the pacing interval, in seconds
Units == 10

VARIABLES
    \* --- Cluster.Health
    cluster,        \* the *Cluster Health is called on (NoCluster: none constructed)
    hpc,            \* position of Health: idle, attempt, closesend, recv, ret, wait, done
    now,            \* seconds elapsed since Health was called
    session,        \* the streaming session of the current attempt
    recvd,          \* what resp.Recv() returned so far in the current attempt
    attemptErr,     \* the error the last finished attempt (cluster.health) returned
    result,         \* what Health returned: none (running), nil, timeout, unexpected
    attempts,       \* attempts started so far
    ctxCancelled,   \* the caller's ctx is cancelled
    \* --- NewCluster
    npc,                \* position of NewCluster
    machines,           \* its local machines (capiv1.MachineList.Items)
    controlPlaneNodes,  \* its local controlPlaneNodes
    workerNodes,        \* its local workerNodes
    clientConfig,       \* its local clientConfig, as far as NewCluster reads it
    ncErr,              \* the error NewCluster returned ("nil": none)
    \* --- events sink command
    negativeAddressFilter,  \* the --negative-address-filter flag, as parsed by pflag
    spc,                \* position of main/run
    fidx,               \* index of the next flag entry the parse loop reads
    negativeFilter,     \* run's local negativeFilter ([]netip.Prefix)
    listenerBound,      \* net.Listen succeeded
    server,             \* the grpc.Server: new, serving, stopped
    annot,              \* goroutine annotator.Run: [st, err]
    serve,              \* goroutine s.Serve: [st, err]
    watcher,            \* goroutine <-ctx.Done(); s.Stop(): [st, err]
    egErr,              \* the errgroup's first non-nil error
    signalled,          \* SIGINT/SIGTERM was delivered (signal.NotifyContext)
    inflight,           \* streams being served
    accepted,           \* streams accepted since the start
    aborted,            \* streams closed by s.Stop() while in flight
    runErr,             \* what run returned ("none": has not returned)
    exitCode,           \* the process's exit status (-1: has not exited)
    \* --- events sink command: adapter and annotator
    handled,            \* the AddressEvents the adapter has handled, in order
    enqueued,           \* the AnnotationRequests the adapter has enqueued, in order
    queue,              \* the annotator's queue: the requests not yet taken
    applying            \* the requests whose apply step is in flight

healthVars == <<hpc, now, session, recvd, attemptErr, result, attempts, ctxCancelled>>
ncVars == <<npc, machines, controlPlaneNodes, workerNodes, clientConfig, ncErr>>
sinkVars == <<negativeAddressFilter, spc, fidx, negativeFilter, listenerBound, server,
              annot, serve, watcher, egErr, signalled, inflight, accepted, aborted,
              runErr, exitCode>>

pipeVars == <<handled, enqueued, queue, applying>>

vars == <<cluster, healthVars, ncVars, sinkVars, pipeVars>>

NoCluster == [name |-> "", controlPlaneNodes |-> <<>>, workerNodes |-> <<>>, nil |-> TRUE]
NoSession == [node |-> "", open |-> FALSE]

Max(a, b) == IF a >= b THEN a ELSE b

\* ---------------------------------------------------------------- NewCluster

\* most machines one List call returns
MaxMachines == 2

\* capiv1.MachinePhase values a machine may be in (Running and Provisioned are the two
\* the code names).
Phases == {"Running", "Provisioned", "Pending"}

\* machine.Status.Addresses: the lists a machine may carry
IntA == [type |-> "InternalIP", address |-> "10.0.0.2"]
IntB == [type |-> "InternalIP", address |-> "10.0.0.3"]
ExtA == [type |-> "ExternalIP", address |-> "172.24.0.2"]
AddressLists == {<<>>, <<ExtA>>, <<ExtA, IntB>>, <<IntB, IntA>>}

\* the machines a List call may return: every deletion state and phase with one
\* internal address, and every address list on a machine that is not skipped
Machines ==
    [deleting : BOOLEAN, phase : Phases, addresses : {<<IntA>>}]
    \cup [deleting : {FALSE}, phase : {"Provisioned"}, addresses : AddressLists]

\* the MachineList.Items a List call may return
SeqsUpTo(S, n) == UNION {[1..k -> S] : k \in 0..n}
MachineLists == SeqsUpTo(Machines, MaxMachines)

\* the number of MachineDeployment items a List call may return
MachineDeploymentCounts == {0, 1, 2}

\* resolveMachinesToIPs, inner loop: the InternalIP addresses of one machine, in order
RECURSIVE InternalIPs(_)
InternalIPs(addresses) ==
    IF addresses = <<>> THEN <<>>
    ELSE (IF Head(addresses).type = "InternalIP" THEN <<Head(addresses).address>> ELSE <<>>)
         \o InternalIPs(Tail(addresses))

\* the outer loop without the test of the phase
MachineSkippedOnDeletionOnly(machine) == machine.deleting

\* resolveMachinesToIPs, the two continue conditions of the outer loop
MachineSkipped(machine) ==
    \/ machine.deleting
    \/ (machine.phase # "Running" /\ machine.phase # "Provisioned")

\* resolveMachinesToIPs
RECURSIVE resolveMachinesToIPs(_)
resolveMachinesToIPs(items) ==
    IF items = <<>> THEN <<>>
    ELSE (IF MachineSkipped(Head(items)) THEN <<>> ELSE InternalIPs(Head(items).addresses))
         \o resolveMachinesToIPs(Tail(items))

\* the check of the control-plane endpoints left out
TooFewControlPlaneNodesUnchecked(nodes) == FALSE

\* NewCluster: len(controlPlaneNodes) < 1
TooFewControlPlaneNodes(nodes) == Len(nodes) < 1

\* NewCluster returns (nil, err)
NewClusterFails(err) ==
    /\ npc' = "done"
    /\ ncErr' = err
    /\ cluster' = NoCluster

\* metalClient.Get(..., &cluster)
GetCluster ==
    /\ npc = "start"
    /\ \E ok \in BOOLEAN :
        IF ok THEN npc' = "getControlPlane" /\ UNCHANGED <<ncErr, cluster>>
        ELSE NewClusterFails("GetClusterErr")
    /\ UNCHANGED <<machines, controlPlaneNodes, workerNodes, clientConfig>>
    /\ UNCHANGED <<healthVars, sinkVars, pipeVars>>

\* metalClient.Get(..., &controlPlane); labels.Parse(controlPlane.Status.Selector)
GetControlPlane ==
    /\ npc = "getControlPlane"
    /\ \E ok \in BOOLEAN, selectorOK \in BOOLEAN :
        IF ~ok THEN NewClusterFails("GetControlPlaneErr")
        ELSE IF ~selectorOK THEN NewClusterFails("ParseSelectorErr")
        ELSE npc' = "listMachines" /\ UNCHANGED <<ncErr, cluster>>
    /\ UNCHANGED <<machines, controlPlaneNodes, workerNodes, clientConfig>>
    /\ UNCHANGED <<healthVars, sinkVars, pipeVars>>

\* metalClient.List(ctx, &machines, ...); len(machines.Items) < 1
ListMachines ==
    /\ npc = "listMachines"
    /\ \E ok \in BOOLEAN :
        IF ~ok THEN NewClusterFails("ListMachinesErr") /\ UNCHANGED machines
        ELSE \E items \in MachineLists :
             /\ machines' = items
             /\ IF Len(items) < 1 THEN NewClusterFails("not enough machines found")
                ELSE npc' = "getSecret" /\ UNCHANGED <<ncErr, cluster>>
    /\ UNCHANGED <<controlPlaneNodes, workerNodes, clientConfig>>
    /\ UNCHANGED <<healthVars, sinkVars, pipeVars>>

\* metalClient.Get(..., &talosSecret); talosSecret.Data["talosconfig"];
\* clientconfig.FromBytes(config)
GetSecret ==
    /\ npc = "getSecret"
    /\ \E ok \in BOOLEAN, hasData \in BOOLEAN, parses \in BOOLEAN, hasContext \in BOOLEAN :
        IF ~ok THEN NewClusterFails("GetSecretErr") /\ UNCHANGED clientConfig
        ELSE IF ~hasData
        THEN NewClusterFails("failed to find talosconfig data in the talosconfig secret")
             /\ UNCHANGED clientConfig
        ELSE IF ~parses THEN NewClusterFails("FromBytesErr") /\ UNCHANGED clientConfig
        ELSE /\ clientConfig' = [hasContext |-> hasContext, endpoints |-> <<>>]
             /\ npc' = "resolve"
             /\ UNCHANGED <<ncErr, cluster>>
    /\ UNCHANGED <<machines, controlPlaneNodes, workerNodes>>
    /\ UNCHANGED <<healthVars, sinkVars, pipeVars>>

\* controlPlaneNodes := resolveMachinesToIPs(machines); len(controlPlaneNodes) < 1
ResolveControlPlane ==
    /\ npc = "resolve"
    /\ controlPlaneNodes' = resolveMachinesToIPs(machines)
    /\ IF TooFewControlPlaneNodes(controlPlaneNodes')
       THEN NewClusterFails("failed to find control plane nodes")
       ELSE npc' = "listMachineDeployments" /\ UNCHANGED <<ncErr, cluster>>
    /\ UNCHANGED <<machines, workerNodes, clientConfig>>
    /\ UNCHANGED <<healthVars, sinkVars, pipeVars>>

\* metalClient.List(ctx, &machineDeployments, ...); len(Items) != 1; labels.Parse
ListMachineDeployments ==
    /\ npc = "listMachineDeployments"
    /\ \E ok \in BOOLEAN, n \in MachineDeploymentCounts, selectorOK \in BOOLEAN :
        IF ~ok THEN NewClusterFails("ListMachineDeploymentsErr")
        ELSE IF n # 1 THEN NewClusterFails("unexpected number of machine deployments")
        ELSE IF ~selectorOK THEN NewClusterFails("ParseSelectorErr")
        ELSE npc' = "listWorkers" /\ UNCHANGED <<ncErr, cluster>>
    /\ UNCHANGED <<machines, controlPlaneNodes, workerNodes, clientConfig>>
    /\ UNCHANGED <<healthVars, sinkVars, pipeVars>>

\* metalClient.List(ctx, &machines, ...); workerNodes := resolveMachinesToIPs(machines)
ListWorkers ==
    /\ npc = "listWorkers"
    /\ \E ok \in BOOLEAN :
        IF ~ok THEN NewClusterFails("ListMachinesErr") /\ UNCHANGED <<machines, workerNodes>>
        ELSE \E items \in MachineLists :
             /\ machines' = items
             /\ workerNodes' = resolveMachinesToIPs(items)
             /\ npc' = "newClient"
             /\ UNCHANGED <<ncErr, cluster>>
    /\ UNCHANGED <<controlPlaneNodes, clientConfig>>
    /\ UNCHANGED <<healthVars, sinkVars, pipeVars>>

\* clientConfig.Contexts[clientConfig.Context].Endpoints = controlPlaneNodes (a nil
\* pointer dereference when the config names a context it does not hold);
\* talosclient.New; return &Cluster{...}, nil
NewClient ==
    /\ npc = "newClient"
    /\ IF ~clientConfig.hasContext
       THEN npc' = "panic" /\ UNCHANGED <<ncErr, cluster, clientConfig>>
       ELSE /\ clientConfig' = [clientConfig EXCEPT !.endpoints = controlPlaneNodes]
            /\ \E ok \in BOOLEAN :
                IF ~ok THEN NewClusterFails("NewClientErr")
                ELSE /\ npc' = "done"
                     /\ ncErr' = "nil"
                     /\ cluster' = [name |-> "c1", controlPlaneNodes |-> controlPlaneNodes,
                                    workerNodes |-> workerNodes, nil |-> FALSE]
    /\ UNCHANGED <<machines, controlPlaneNodes, workerNodes>>
    /\ UNCHANGED <<healthVars, sinkVars, pipeVars>>

\* ------------------------------------------------------------ Cluster.Health

\* The durations a blocking call may take.
BlockTimes == {0, Units \div 2, MaxBlock}

\* What resp.Recv() can deliver: a progress message without or with an error in its
\* metadata, or an error: io.EOF, a gRPC status Canceled, any other error.
RecvMessages == {"msg", "errmsg"}
RecvErrors == {"EOF", "Canceled", "RecvErr"}

\* ExpectedError without its nil check: a nil error is wrapped too
ExpectedErrorWrapsNil(err) == [isNil |-> FALSE, expected |-> TRUE, err |-> err]

\* the attempt's error passed on without the wrapping that marks it expected
ExpectedErrorUnwrapped(err) == [isNil |-> err = "nil", expected |-> FALSE, err |-> err]

\* retry.ExpectedError(err): nil stays nil, any error is wrapped as expected
ExpectedError(err) ==
    IF err = "nil" THEN [isNil |-> TRUE, expected |-> FALSE, err |-> "nil"]
    ELSE [isNil |-> FALSE, expected |-> TRUE, err |-> err]

\* the Recv error branch without the Canceled status
RecvEndsNormallyOnEOFOnly(ev) == ev = "EOF"

\* health, Recv error branch: io.EOF and codes.Canceled end the attempt with nil
RecvEndsNormally(ev) == ev = "EOF" \/ ev = "Canceled"

\* the loop without the check of the message's error
MsgHasErrorNever(ev) == FALSE

\* health: msg.GetMetadata().GetError() != ""
MsgHasError(ev) == ev = "errmsg"

\* Health is called: the retry loop arms its total budget and runs the first attempt.
HealthCall ==
    /\ hpc = "idle"
    /\ cluster.nil = FALSE
    /\ hpc' = "attempt"
    /\ now' = 0
    /\ UNCHANGED <<cluster, session, recvd, attemptErr, result, attempts, ctxCancelled>>
    /\ UNCHANGED <<ncVars, sinkVars, pipeVars>>

\* health: cluster.client.ClusterHealthCheck(WithNodes(ctx, controlPlaneNodes[0]), ...);
\* on a cancelled ctx the call fails with the Canceled status
OpenStream ==
    /\ hpc = "attempt"
    /\ attempts' = attempts + 1
    /\ recvd' = <<>>
    /\ \E d \in BlockTimes, ok \in BOOLEAN :
        /\ now' = now + d
        /\ IF ok /\ ~ctxCancelled
           THEN /\ session' = [node |-> cluster.controlPlaneNodes[1], open |-> TRUE]
                /\ hpc' = "closesend"
                /\ UNCHANGED attemptErr
           ELSE /\ session' = NoSession
                /\ attemptErr' = IF ctxCancelled THEN "OpenCanceledErr" ELSE "OpenErr"
                /\ hpc' = "ret"
    /\ UNCHANGED <<cluster, result, ctxCancelled>>
    /\ UNCHANGED <<ncVars, sinkVars, pipeVars>>

\* health: resp.CloseSend()
CloseSend ==
    /\ hpc = "closesend"
    /\ \E ok \in BOOLEAN :
        IF ok
        THEN hpc' = "recv" /\ UNCHANGED attemptErr
        ELSE hpc' = "ret" /\ attemptErr' = "CloseSendErr"
    /\ UNCHANGED <<cluster, now, session, recvd, result, attempts, ctxCancelled>>
    /\ UNCHANGED <<ncVars, sinkVars, pipeVars>>

\* What the next resp.Recv() may return.
RecvChoices ==
    IF ctxCancelled THEN {"Canceled"}
    ELSE RecvErrors \cup (IF Len(recvd) < MaxMsgs THEN RecvMessages ELSE {})

\* health: one iteration of the for loop around resp.Recv()
Recv ==
    /\ hpc = "recv"
    /\ \E d \in BlockTimes, ev \in RecvChoices :
        /\ now' = now + d
        /\ recvd' = Append(recvd, ev)
        /\ IF ev \in RecvErrors
           THEN /\ session' = [session EXCEPT !.open = FALSE]
                /\ attemptErr' = IF RecvEndsNormally(ev) THEN "nil" ELSE ev
                /\ hpc' = "ret"
           ELSE /\ UNCHANGED session
                /\ IF MsgHasError(ev)
                   THEN attemptErr' = "HealthcheckErr" /\ hpc' = "ret"
                   ELSE UNCHANGED attemptErr /\ hpc' = "recv"
    /\ UNCHANGED <<cluster, result, attempts, ctxCancelled>>
    /\ UNCHANGED <<ncVars, sinkVars, pipeVars>>

\* retry loop: the attempt returned; nil ends Health, an expected error is retried,
\* any other error is returned as it is.
AttemptReturned ==
    /\ hpc = "ret"
    /\ LET e == ExpectedError(attemptErr) IN
        IF e.isNil THEN hpc' = "done" /\ result' = "nil"
        ELSE IF e.expected THEN hpc' = "wait" /\ UNCHANGED result
        ELSE hpc' = "done" /\ result' = "unexpected"
    /\ UNCHANGED <<cluster, now, session, recvd, attemptErr, attempts, ctxCancelled>>
    /\ UNCHANGED <<ncVars, sinkVars, pipeVars>>

\* the select without its deadline case: nothing ends the wait once the pacing timer
\* cannot fire within the budget
WaitDeadlineMissing ==
    /\ hpc = "wait"
    /\ now + Units >= Budget
    /\ UNCHANGED vars

\* retry loop, select: the budget's deadline is the case that fires
WaitDeadline ==
    /\ hpc = "wait"
    /\ now + Units >= Budget
    /\ now' = Max(now, Budget)
    /\ hpc' = "done"
    /\ result' = "timeout"
    /\ UNCHANGED <<cluster, session, recvd, attemptErr, attempts, ctxCancelled>>
    /\ UNCHANGED <<ncVars, sinkVars, pipeVars>>

\* the pacing timer winning the select whatever the deadline
WaitTickIgnoresDeadline ==
    /\ hpc = "wait"
    /\ now' = now + Units
    /\ hpc' = "attempt"
    /\ UNCHANGED <<cluster, session, recvd, attemptErr, result, attempts, ctxCancelled>>
    /\ UNCHANGED <<ncVars, sinkVars, pipeVars>>

\* retry loop, select: the pacing timer is the case that fires
WaitTick ==
    /\ hpc = "wait"
    /\ now + Units <= Budget
    /\ now' = now + Units
    /\ hpc' = "attempt"
    /\ UNCHANGED <<cluster, session, recvd, attemptErr, result, attempts, ctxCancelled>>
    /\ UNCHANGED <<ncVars, sinkVars, pipeVars>>

\* The caller cancels the ctx it gave to Health.
CallerCancel ==
    /\ hpc # "done"
    /\ ~ctxCancelled
    /\ ctxCancelled' = TRUE
    /\ UNCHANGED <<cluster, hpc, now, session, recvd, attemptErr, result, attempts>>
    /\ UNCHANGED <<ncVars, sinkVars, pipeVars>>

\* ------------------------------------------------------- events sink command

\* most entries of the --negative-address-filter flag
MaxFilter == 2
\* most streams the server accepts in one run
MaxStreams == 2

\* One entry of the flag, as the text before and after its '/' (bits = "": no '/').
Dash == [ip |-> "-", bits |-> ""]
FilterEntries ==
    { Dash,
      [ip |-> "10.0.0.0", bits |-> "8"],
      [ip |-> "192.168.0.0", bits |-> "16"],
      [ip |-> "10.0.0.0", bits |-> "33"],
      [ip |-> "10.0.0.0", bits |-> ""],
      [ip |-> "bogus", bits |-> "8"] }

ValidAddrs == {"10.0.0.0", "192.168.0.0"}
BitsValue == [b \in {"8", "16", "33"} |-> IF b = "8" THEN 8 ELSE IF b = "16" THEN 16 ELSE 33]

\* netip.ParsePrefix: the text needs a '/', a valid address before it and a prefix
\* length of 0..32 (IPv4) after it; the zero Prefix comes with an error.
ParsePrefix(e) ==
    IF /\ e.bits # ""
       /\ e.ip \in ValidAddrs
       /\ e.bits \in DOMAIN BitsValue
       /\ BitsValue[e.bits] <= 32
    THEN [err |-> FALSE, prefix |-> [addr |-> e.ip, bits |-> BitsValue[e.bits]]]
    ELSE [err |-> TRUE, prefix |-> [addr |-> "", bits |-> 0]]

\* the parse loop without the test for the "-" entry
IsSentinelNever(e) == FALSE

\* run, parse loop: prefixStr == "-"
IsSentinel(e) == e = Dash

\* the parse loop ignoring the error of netip.ParsePrefix
ParseFailedIgnored(e) == FALSE

\* run, parse loop: err != nil after netip.ParsePrefix
ParseFailed(e) == ParsePrefix(e).err

\* errors.Is(err, target) on the errors the loops return
ErrorsIs(err, target) == err = target

\* run: the condition under which the error of eg.Wait() is returned
RunReturnsErr(err) ==
    /\ err # "nil"
    /\ ~ErrorsIs(err, "ErrServerStopped")
    /\ ErrorsIs(err, "Canceled")

NotStarted == [st |-> "none", err |-> "nil"]
Running == [st |-> "running", err |-> "nil"]
Returned(err) == [st |-> "returned", err |-> err]

\* a context that only the signal cancels, not the first error of the group
CtxDoneOnSignalOnly == signalled

\* the ctx of errgroup.WithContext(ctx) is done: the signal came, or a loop returned
\* a non-nil error
CtxDone == signalled \/ egErr # "nil"

\* errgroup: a goroutine returned err; the first non-nil error is kept
EgRecord(err) == IF egErr = "nil" THEN err ELSE egErr

\* run returns err to main
RunReturns(err) ==
    /\ spc' = "returned"
    /\ runErr' = err

\* main calls run: zap.NewProduction(), signal.NotifyContext
RunStart ==
    /\ spc = "main"
    /\ \E ok \in BOOLEAN :
        IF ok THEN spc' = "parse" /\ UNCHANGED runErr
        ELSE RunReturns("LoggerErr")
    /\ UNCHANGED <<negativeAddressFilter, fidx, negativeFilter, listenerBound, server,
                   annot, serve, watcher, egErr, signalled, inflight, accepted, aborted,
                   exitCode>>
    /\ UNCHANGED <<cluster, healthVars, ncVars, pipeVars>>

\* run: one iteration of the loop over negativeAddressFilter
ParseEntry ==
    /\ spc = "parse"
    /\ fidx <= Len(negativeAddressFilter)
    /\ LET prefixStr == negativeAddressFilter[fidx] IN
        IF IsSentinel(prefixStr)
        THEN fidx' = fidx + 1 /\ UNCHANGED <<negativeFilter, spc, runErr>>
        ELSE IF ParseFailed(prefixStr)
        THEN RunReturns("ParsePrefixErr") /\ UNCHANGED <<negativeFilter, fidx>>
        ELSE /\ negativeFilter' = Append(negativeFilter, ParsePrefix(prefixStr).prefix)
             /\ fidx' = fidx + 1
             /\ UNCHANGED <<spc, runErr>>
    /\ UNCHANGED <<negativeAddressFilter, listenerBound, server, annot, serve, watcher,
                   egErr, signalled, inflight, accepted, aborted, exitCode>>
    /\ UNCHANGED <<cluster, healthVars, ncVars, pipeVars>>

\* run: the loop is over; errgroup.WithContext; net.Listen("tcp", address)
Listen ==
    /\ spc = "parse"
    /\ fidx > Len(negativeAddressFilter)
    /\ \E ok \in BOOLEAN :
        IF ok THEN spc' = "client" /\ listenerBound' = TRUE /\ UNCHANGED runErr
        ELSE RunReturns("ListenErr") /\ UNCHANGED listenerBound
    /\ UNCHANGED <<negativeAddressFilter, fidx, negativeFilter, server, annot, serve,
                   watcher, egErr, signalled, inflight, accepted, aborted, exitCode>>
    /\ UNCHANGED <<cluster, healthVars, ncVars, pipeVars>>

\* run: grpc.NewServer(); getMetalClient(); NewAnnotator, NewAdapter, NewSink,
\* RegisterEventSinkServiceServer; the three eg.Go calls
StartLoops ==
    /\ spc = "client"
    /\ \E ok \in BOOLEAN :
        IF ok
        THEN /\ spc' = "wait"
             /\ annot' = Running
             /\ serve' = Running
             /\ watcher' = Running
             /\ UNCHANGED runErr
        ELSE RunReturns("MetalClientErr") /\ UNCHANGED <<annot, serve, watcher>>
    /\ UNCHANGED <<negativeAddressFilter, fidx, negativeFilter, listenerBound, server,
                   egErr, signalled, inflight, accepted, aborted, exitCode>>
    /\ UNCHANGED <<cluster, healthVars, ncVars, pipeVars>>

\* SIGINT or SIGTERM arrives after signal.NotifyContext was set up
Signal ==
    /\ spc \in {"parse", "client", "wait"}
    /\ ~signalled
    /\ signalled' = TRUE
    /\ UNCHANGED <<negativeAddressFilter, spc, fidx, negativeFilter, listenerBound, server,
                   annot, serve, watcher, egErr, inflight, accepted, aborted, runErr,
                   exitCode>>
    /\ UNCHANGED <<cluster, healthVars, ncVars, pipeVars>>

\* annotator.Run(ctx) returns: the loop exits once ctx is cancelled
AnnotatorReturn ==
    /\ annot.st = "running"
    /\ CtxDone
    /\ \E err \in {"nil", "Canceled"} :
        /\ annot' = Returned(err)
        /\ egErr' = EgRecord(err)
    /\ UNCHANGED <<negativeAddressFilter, spc, fidx, negativeFilter, listenerBound, server,
                   serve, watcher, signalled, inflight, accepted, aborted, runErr, exitCode>>
    /\ UNCHANGED <<cluster, healthVars, ncVars, pipeVars>>

\* s.Serve(lis) is entered: a server stopped before returns ErrServerStopped
ServeStart ==
    /\ serve.st = "running"
    /\ server \in {"new", "stopped"}
    /\ IF server = "stopped"
       THEN /\ serve' = Returned("ErrServerStopped")
            /\ egErr' = EgRecord("ErrServerStopped")
            /\ UNCHANGED server
       ELSE /\ server' = "serving"
            /\ UNCHANGED <<serve, egErr>>
    /\ UNCHANGED <<negativeAddressFilter, spc, fidx, negativeFilter, listenerBound, annot,
                   watcher, signalled, inflight, accepted, aborted, runErr, exitCode>>
    /\ UNCHANGED <<cluster, healthVars, ncVars, pipeVars>>

\* s.Serve: lis.Accept() returns a connection, a stream is served
ServeAccept ==
    /\ serve.st = "running"
    /\ server = "serving"
    /\ accepted < MaxStreams
    /\ accepted' = accepted + 1
    /\ inflight' = inflight + 1
    /\ UNCHANGED <<negativeAddressFilter, spc, fidx, negativeFilter, listenerBound, server,
                   annot, serve, watcher, egErr, signalled, aborted, runErr, exitCode>>
    /\ UNCHANGED <<cluster, healthVars, ncVars, pipeVars>>

\* a stream in flight ends: the peer closed it, or it failed
StreamEnds ==
    /\ inflight > 0
    /\ inflight' = inflight - 1
    /\ UNCHANGED <<negativeAddressFilter, spc, fidx, negativeFilter, listenerBound, server,
                   annot, serve, watcher, egErr, signalled, accepted, aborted, runErr,
                   exitCode>>
    /\ UNCHANGED <<cluster, healthVars, ncVars, pipeVars>>

\* s.Serve returns: lis.Accept() failed (the error is returned), or the server was
\* stopped while serving (nil is returned)
ServeReturn ==
    /\ serve.st = "running"
    /\ server \in {"serving", "stopped"}
    /\ LET err == IF server = "stopped" THEN "nil" ELSE "AcceptErr" IN
        /\ serve' = Returned(err)
        /\ egErr' = EgRecord(err)
    /\ server # "new"
    /\ UNCHANGED <<negativeAddressFilter, spc, fidx, negativeFilter, listenerBound, server,
                   annot, watcher, signalled, inflight, accepted, aborted, runErr,
                   exitCode>>
    /\ UNCHANGED <<cluster, healthVars, ncVars, pipeVars>>

\* the shutdown watcher returning on ctx.Done() without stopping the server
WatcherReturnsWithoutStop ==
    /\ watcher.st = "running"
    /\ CtxDone
    /\ watcher' = Returned("nil")
    /\ UNCHANGED <<negativeAddressFilter, spc, fidx, negativeFilter, listenerBound, annot,
                   serve, egErr, signalled, accepted, runErr, exitCode, server, aborted,
                   inflight>>
    /\ UNCHANGED <<cluster, healthVars, ncVars, pipeVars>>

\* the shutdown watcher: <-ctx.Done(); s.Stop(); return nil.  Stop closes the
\* listener and every connection, so the streams in flight are closed.
WatcherStop ==
    /\ watcher.st = "running"
    /\ CtxDone
    /\ server' = "stopped"
    /\ aborted' = aborted + inflight
    /\ inflight' = 0
    /\ watcher' = Returned("nil")
    /\ UNCHANGED <<negativeAddressFilter, spc, fidx, negativeFilter, listenerBound, annot,
                   serve, egErr, signalled, accepted, runErr, exitCode>>
    /\ UNCHANGED <<cluster, healthVars, ncVars, pipeVars>>

\* run: eg.Wait() returns once the three goroutines returned; the final condition
Wait ==
    /\ spc = "wait"
    /\ annot.st = "returned" /\ serve.st = "returned" /\ watcher.st = "returned"
    /\ RunReturns(IF RunReturnsErr(egErr) THEN egErr ELSE "nil")
    /\ UNCHANGED <<negativeAddressFilter, fidx, negativeFilter, listenerBound, server,
                   annot, serve, watcher, egErr, signalled, inflight, accepted, aborted,
                   exitCode>>
    /\ UNCHANGED <<cluster, healthVars, ncVars, pipeVars>>

\* main: run returned; a non-nil error is printed and the exit status is 1
MainExit ==
    /\ spc = "returned"
    /\ spc' = "exited"
    /\ exitCode' = IF runErr # "nil" THEN 1 ELSE 0
    /\ UNCHANGED <<negativeAddressFilter, fidx, negativeFilter, listenerBound, server,
                   annot, serve, watcher, egErr, signalled, inflight, accepted, aborted,
                   runErr>>
    /\ UNCHANGED <<cluster, healthVars, ncVars, pipeVars>>

\* ------------------------------------- events sink: adapter and annotator

\* most AddressEvents the adapter handles in one run
MaxEvents == 2

\* node identities and the address lists an AddressEvent may carry
Nodes == {"n1", "n2"}
EventAddressLists == {<<"10.1.2.3">>, <<"10.1.2.3", "192.168.1.5">>, <<"172.16.0.1">>}
AddressEvents == [node : Nodes, addresses : EventAddressLists]

\* the four bytes of the addresses of the model
Octets(a) ==
    CASE a = "10.0.0.0" -> <<10, 0, 0, 0>>
      [] a = "192.168.0.0" -> <<192, 168, 0, 0>>
      [] a = "10.1.2.3" -> <<10, 1, 2, 3>>
      [] a = "192.168.1.5" -> <<192, 168, 1, 5>>
      [] a = "172.16.0.1" -> <<172, 16, 0, 1>>

RECURSIVE Pow2(_)
Pow2(n) == IF n = 0 THEN 1 ELSE 2 * Pow2(n - 1)

\* netip.Prefix.Contains: the address agrees with the prefix on its first bits,
\* compared byte by byte
Contains(prefix, a) ==
    LET whole == prefix.bits \div 8
        rest == prefix.bits % 8
    IN  /\ \A k \in 1..whole : Octets(a)[k] = Octets(prefix.addr)[k]
        /\ rest > 0 =>
            Octets(a)[whole + 1] \div Pow2(8 - rest) = Octets(prefix.addr)[whole + 1] \div Pow2(8 - rest)

\* Address Filter: the address lies in one of the prefixes
IsExcluded(a, prefixes) == \E i \in 1..Len(prefixes) : Contains(prefixes[i], a)

\* Dispatcher: the addresses of the event the filter does not exclude
Remaining(ev, prefixes) == SelectSeq(ev.addresses, LAMBDA a : ~IsExcluded(a, prefixes))

\* a request is enqueued for an event with no address left
EnqueuesAlways(remaining) == TRUE

\* Dispatcher: a request is enqueued only if an address remains
Enqueues(remaining) == remaining # <<>>

\* Dispatcher, Handle(AddressEvent), called by the handler of a stream in flight
HandleAddressEvent ==
    /\ spc = "wait"
    /\ server = "serving"
    /\ inflight > 0
    /\ Len(handled) < MaxEvents
    /\ \E ev \in AddressEvents :
        LET remaining == Remaining(ev, negativeFilter)
            request == [node |-> ev.node, addresses |-> remaining]
        IN  /\ handled' = Append(handled, ev)
            /\ IF Enqueues(remaining)
               THEN queue' = Append(queue, request) /\ enqueued' = Append(enqueued, request)
               ELSE UNCHANGED <<queue, enqueued>>
    /\ UNCHANGED applying
    /\ UNCHANGED <<cluster, healthVars, ncVars, sinkVars>>

RemoveAt(s, i) == SubSeq(s, 1, i - 1) \o SubSeq(s, i + 1, Len(s))

\* the per-node gate left open
NodeFreeAlways(node) == TRUE

\* Annotator: no apply step for the node is in flight
NodeFree(node) == \A k \in 1..Len(applying) : applying[k].node # node

\* Annotator, drain loop: the first queued request of a node whose gate is free is
\* taken and its apply step starts
AnnotatorTake ==
    /\ annot.st = "running"
    /\ \E i \in 1..Len(queue) :
        /\ NodeFree(queue[i].node)
        /\ \A j \in 1..(i - 1) : queue[j].node # queue[i].node
        /\ applying' = Append(applying, queue[i])
        /\ queue' = RemoveAt(queue, i)
    /\ UNCHANGED <<handled, enqueued>>
    /\ UNCHANGED <<cluster, healthVars, ncVars, sinkVars>>

\* Annotator: an apply step ends (applied, or abandoned after its retries)
ApplyDone ==
    /\ \E i \in 1..Len(applying) : applying' = RemoveAt(applying, i)
    /\ UNCHANGED <<handled, enqueued, queue>>
    /\ UNCHANGED <<cluster, healthVars, ncVars, sinkVars>>

\* ---------------------------------------------------------- specifications

\* The state before NewCluster is called.
InitNC ==
    /\ npc = "start"
    /\ machines = <<>>
    /\ controlPlaneNodes = <<>>
    /\ workerNodes = <<>>
    /\ clientConfig = [hasContext |-> FALSE, endpoints |-> <<>>]
    /\ ncErr = "nil"

\* The state before Health is called.
InitH ==
    /\ hpc = "idle"
    /\ now = 0
    /\ session = NoSession
    /\ recvd = <<>>
    /\ attemptErr = "nil"
    /\ result = "none"
    /\ attempts = 0
    /\ ctxCancelled = FALSE

\* The state of the events sink process as main calls run, given the flag's value.
InitS(flag) ==
    /\ negativeAddressFilter = flag
    /\ spc = "main"
    /\ fidx = 1
    /\ negativeFilter = <<>>
    /\ listenerBound = FALSE
    /\ server = "new"
    /\ annot = NotStarted
    /\ serve = NotStarted
    /\ watcher = NotStarted
    /\ egErr = "nil"
    /\ signalled = FALSE
    /\ inflight = 0
    /\ accepted = 0
    /\ aborted = 0
    /\ runErr = "none"
    /\ exitCode = -1
    /\ handled = <<>>
    /\ enqueued = <<>>
    /\ queue = <<>>
    /\ applying = <<>>

\* A Cluster as NewCluster returns it.
SampleCluster ==
    [name |-> "c1", controlPlaneNodes |-> <<"10.0.0.2">>, workerNodes |-> <<>>, nil |-> FALSE]

\* NewCluster
InitCluster == cluster = NoCluster /\ InitNC /\ InitH /\ InitS(<<>>)

NextCluster ==
    \/ GetCluster
    \/ GetControlPlane
    \/ ListMachines
    \/ GetSecret
    \/ ResolveControlPlane
    \/ ListMachineDeployments
    \/ ListWorkers
    \/ NewClient

SpecCluster == InitCluster /\ [][NextCluster]_vars

\* Cluster.Health, called on a constructed Cluster
InitHealth == cluster = SampleCluster /\ InitNC /\ InitH /\ InitS(<<>>)

NextHealth ==
    \/ HealthCall
    \/ OpenStream
    \/ CloseSend
    \/ Recv
    \/ AttemptReturned
    \/ WaitDeadline
    \/ WaitTick
    \/ CallerCancel

SpecHealth == InitHealth /\ [][NextHealth]_vars

\* the events sink process, for every value of the flag
InitSink ==
    /\ cluster = NoCluster /\ InitNC /\ InitH
    /\ \E flag \in SeqsUpTo(FilterEntries, MaxFilter) : InitS(flag)

NextSink ==
    \/ RunStart
    \/ ParseEntry
    \/ Listen
    \/ StartLoops
    \/ Signal
    \/ AnnotatorReturn
    \/ ServeStart
    \/ ServeAccept
    \/ StreamEnds
    \/ ServeReturn
    \/ WatcherStop
    \/ Wait
    \/ MainExit

SpecSink == InitSink /\ [][NextSink]_vars

\* the events sink process from its start, serving streams and handling events
NextPipeline ==
    \/ RunStart
    \/ ParseEntry
    \/ Listen
    \/ StartLoops
    \/ ServeStart
    \/ ServeAccept
    \/ HandleAddressEvent
    \/ AnnotatorTake
    \/ ApplyDone

SpecPipeline == InitSink /\ [][NextPipeline]_vars

\* Cluster.Health under the scheduling the Go runtime gives: a step that can be taken
\* is taken (a blocking call returns, the select fires).
FairSpecHealth == SpecHealth /\ WF_vars(NextHealth)

\* ------------------------------------------------------------------ claims

Last(s) == s[Len(s)]

\* C1: when an attempt succeeds after any number of failed attempts, Health returns
\* nil: a successful attempt is never followed by the pacing wait or by a failure.
C1_SuccessAfterFailures ==
    /\ (hpc = "done" /\ attemptErr = "nil") => result = "nil"
    /\ hpc = "wait" => attemptErr # "nil"

\* C1 witness: two failed attempts, then a successful third one within the budget.
C1_Witness ==
    hpc = "done" /\ result = "nil" /\ attempts = 3 /\ now < Budget

\* C2: Health returns no error before the budget has elapsed: every error of an
\* attempt is retried, and the only failure Health returns is the timeout.
C2_OnlyTimeoutFails ==
    /\ result \in {"none", "nil", "timeout"}
    /\ result = "timeout" => now >= Budget
    /\ (hpc = "done" /\ now < Budget) => result = "nil"

\* C2 witness: an attempt failed in Recv before the budget elapsed and Health is
\* about to run another attempt.
C2_Witness ==
    hpc = "attempt" /\ attemptErr = "RecvErr" /\ attempts >= 1 /\ now < Budget

\* C3: Health terminates; when its last attempt failed it has returned the timeout,
\* at or after the budget's end.
C3_FailingHealthTimesOut ==
    <>(hpc = "done" /\ (attemptErr # "nil" => (result = "timeout" /\ now >= Budget)))

\* C3 witness: every attempt failed and Health returned the timeout.
C3_Witness ==
    hpc = "done" /\ result = "timeout" /\ attempts >= 2

\* C4, as claimed: Health is never running, and never returns, later than the budget
\* plus one pacing interval after it was called.
C4_ReturnsWithinBudgetPlusUnits == now <= Budget + Units

\* the longest one attempt takes: the stream open and every Recv block
MaxAttemptTime == (MaxMsgs + 2) * MaxBlock

\* C4, amended: no attempt is started after the budget has elapsed, a wait never
\* outlasts the budget, and Health returns no later than the budget plus the time of
\* one attempt (the attempt in progress when the budget ends is not interrupted).
C4_ReturnsAfterLastAttempt ==
    /\ hpc = "attempt" => now <= Budget
    /\ now <= Budget + MaxAttemptTime
    /\ (hpc = "done" /\ result = "timeout" /\ now > Budget) => attemptErr # "nil"

\* C4 witness: Health returned the timeout later than budget + one pacing interval.
C4_Witness ==
    hpc = "done" /\ result = "timeout" /\ now > Budget + Units

\* C5: an attempt whose Recv reports io.EOF or a Canceled status ends with nil, and
\* Health then returns nil.
C5_EndOfStreamIsSuccess ==
    (hpc \in {"ret", "done"} /\ recvd # <<>> /\ Last(recvd) \in {"EOF", "Canceled"})
        => (attemptErr = "nil" /\ (hpc = "done" => result = "nil"))

\* C5 witness: Health returned nil after two progress messages and a Canceled status,
\* the caller's ctx not being cancelled.
C5_Witness ==
    /\ hpc = "done" /\ result = "nil" /\ ~ctxCancelled
    /\ recvd = <<"msg", "msg", "Canceled">>

\* C6: a message with an error is the last thing its attempt receives; the attempt
\* ends with an error, which Health retries: it is returned only as the timeout.
C6_ErrorMessageEndsAttempt ==
    \A i \in 1..Len(recvd) :
        recvd[i] = "errmsg" =>
            /\ i = Len(recvd)
            /\ hpc \in {"ret", "wait", "attempt", "done"}
            /\ attemptErr = "HealthcheckErr"
            /\ hpc = "done" => (result = "timeout" /\ now >= Budget)

\* C6 witness: an attempt got a progress message, then a message with an error; the
\* failure was retried: the next attempt is about to start.
C6_Witness ==
    hpc = "attempt" /\ recvd = <<"msg", "errmsg">> /\ attempts >= 1 /\ result = "none"

\* a machine that yields no endpoint: being deleted, in a phase other than Running and
\* Provisioned, or without an address of type InternalIP
YieldsNoEndpoint(m) ==
    \/ m.deleting
    \/ m.phase \notin {"Running", "Provisioned"}
    \/ \A i \in 1..Len(m.addresses) : m.addresses[i].type # "InternalIP"

NoEndpoints(ms) == \A i \in 1..Len(ms) : YieldsNoEndpoint(ms[i])

\* C7: when the control-plane machines yield no endpoint (no machine at all, or none
\* that is Running/Provisioned with an internal IP), NewCluster returns an error and
\* no Cluster; it goes on past the check only with an endpoint, and a Cluster it
\* returns has controlPlaneNodes[0].
C7_NoClusterWithoutControlPlane ==
    /\ cluster.nil = FALSE =>
        (npc = "done" /\ ncErr = "nil" /\ 1 \in DOMAIN cluster.controlPlaneNodes)
    /\ ncErr # "nil" => (npc = "done" /\ cluster = NoCluster)
    /\ npc \in {"listMachineDeployments", "listWorkers"} =>
        (~NoEndpoints(machines) /\ Len(controlPlaneNodes) >= 1)
    /\ (npc = "resolve" /\ NoEndpoints(machines)) => ~ENABLED ListMachineDeployments
    /\ ncErr = "failed to find control plane nodes" => NoEndpoints(machines)
    /\ ncErr = "not enough machines found" => machines = <<>>

\* C7 witness: two control-plane machines were listed, neither yields an endpoint,
\* and NewCluster returned the error and no Cluster.
C7_Witness ==
    /\ npc = "done" /\ ncErr = "failed to find control plane nodes" /\ cluster = NoCluster
    /\ Len(machines) = 2
    /\ ~machines[1].deleting /\ machines[1].phase = "Provisioned"

\* the errors the three loops returned
LoopErrs == {annot.err, serve.err, watcher.err}
Benign == {"nil", "ErrServerStopped", "Canceled"}

\* C8: when the task group ends with 'server stopped' or context.Canceled after the
\* cancellation signal, run returns nil and the process exits with status 0.
C8_ShutdownErrorsSuppressed ==
    (spc \in {"returned", "exited"} /\ signalled /\ egErr \in {"ErrServerStopped", "Canceled"})
        => (runErr = "nil" /\ (spc = "exited" => exitCode = 0))

\* C9: when a loop returned an error that is neither 'server stopped' nor
\* context.Canceled, run returns such an error and the process exits with status 1.
C9_LoopErrorReturned ==
    (spc \in {"returned", "exited"} /\ LoopErrs \ Benign # {})
        => (runErr \in LoopErrs \ Benign /\ (spc = "exited" => exitCode = 1))

\* the flag entries netip.ParsePrefix accepts
WellFormedEntries == {[ip |-> "10.0.0.0", bits |-> "8"], [ip |-> "192.168.0.0", bits |-> "16"]}

HasMalformed ==
    \E i \in 1..Len(negativeAddressFilter) :
        negativeAddressFilter[i] \notin WellFormedEntries \cup {Dash}

NoLoopStarted ==
    annot = NotStarted /\ serve = NotStarted /\ watcher = NotStarted /\ accepted = 0

\* C10: with a malformed prefix in the flag the listener is never bound and no loop is
\* started, run returns the parse error and the exit status is 1; when the listener
\* cannot be bound no loop is started either, and the exit status is 1.
C10_StartupFailureIsFatal ==
    /\ HasMalformed =>
        /\ spc \in {"main", "parse", "returned", "exited"}
        /\ ~listenerBound
        /\ NoLoopStarted
        /\ spc \in {"returned", "exited"} => runErr \in {"LoggerErr", "ParsePrefixErr"}
        /\ spc = "exited" => exitCode = 1
    /\ runErr = "ListenErr" =>
        /\ ~listenerBound
        /\ NoLoopStarted
        /\ spc = "exited" => exitCode = 1
    /\ ~NoLoopStarted => (listenerBound /\ ~HasMalformed)

\* C10 witness: the second entry of the flag is malformed; run returned the parse
\* error after parsing the first, and the process exited with status 1.
C10_Witness ==
    /\ spc = "exited" /\ runErr = "ParsePrefixErr" /\ exitCode = 1
    /\ Len(negativeFilter) = 1 /\ fidx = 2

\* C11: the shutdown is graceful: a stopped server accepts no stream, and no stream
\* in flight is closed by the shutdown watcher.
C11_GracefulStop ==
    /\ server = "stopped" => ~ENABLED ServeAccept
    /\ aborted = 0

\* the events sink process under the scheduling the Go runtime gives: every step of
\* run and of its goroutines that can be taken is taken, and s.Serve returns once
\* the server is stopped.  No signal, peer or Accept failure is forced to happen.
FairSpecSink ==
    /\ SpecSink
    /\ WF_vars(RunStart) /\ WF_vars(ParseEntry) /\ WF_vars(Listen) /\ WF_vars(StartLoops)
    /\ WF_vars(AnnotatorReturn) /\ WF_vars(ServeStart) /\ WF_vars(WatcherStop)
    /\ WF_vars(ServeReturn /\ server = "stopped")
    /\ WF_vars(Wait) /\ WF_vars(MainExit)

AllLoopsReturned ==
    annot.st = "returned" /\ serve.st = "returned" /\ watcher.st = "returned"

\* C12: run returns from eg.Wait() only when the three loops have returned, and once
\* the signal has come every loop returns and the process exits.
C12_ExitsAfterSignal ==
    /\ [](( spc \in {"returned", "exited"} /\ ~NoLoopStarted) => AllLoopsReturned)
    /\ [](signalled => <>(spc = "exited"))
    /\ []((signalled /\ spc = "wait") => <>AllLoopsReturned)

\* C12 witness: the signal came while the loops ran, the three loops returned and the
\* process exited.
C12_Witness ==
    signalled /\ spc = "exited" /\ AllLoopsReturned /\ accepted > 0

\* the netip.Prefix each well-formed flag entry stands for
PrefixOf(e) ==
    IF e = [ip |-> "10.0.0.0", bits |-> "8"] THEN [addr |-> "10.0.0.0", bits |-> 8]
    ELSE [addr |-> "192.168.0.0", bits |-> 16]

\* the entries of a flag value that are not the literal "-", in order
NonSentinel(flag) == SelectSeq(flag, LAMBDA e : e # Dash)

\* the filter a flag value without malformed entry stands for
FilterOf(flag) == [k \in 1..Len(NonSentinel(flag)) |-> PrefixOf(NonSentinel(flag)[k])]

\* the entries the parse loop has gone through
ParsedPart == SubSeq(negativeAddressFilter, 1, fidx - 1)

\* C13: the filter is the sequence of the parsed prefixes of the entries that are not
\* "-", in the flag's order, while the loop runs and after it; a "-" entry is never
\* the entry the startup fails on.
C13_FilterIsParsedEntries ==
    /\ negativeFilter = FilterOf(ParsedPart)
    /\ spc \in {"client", "wait"} => negativeFilter = FilterOf(negativeAddressFilter)
    /\ runErr = "ParsePrefixErr" =>
        /\ negativeAddressFilter[fidx] # Dash
        /\ negativeAddressFilter[fidx] \notin WellFormedEntries
    /\ (~HasMalformed /\ spc \in {"returned", "exited"}) => runErr # "ParsePrefixErr"

\* C13 witness: a flag of a prefix and a "-" went through the loop; the filter holds
\* the one prefix and the loops run.
C13_Witness ==
    /\ spc = "wait"
    /\ negativeAddressFilter = <<Dash, [ip |-> "192.168.0.0", bits |-> "16"]>>
    /\ negativeFilter = <<[addr |-> "192.168.0.0", bits |-> 16]>>


\* the prefixes of the model and the event addresses inside them, listed
InRange(prefix, a) ==
    \/ prefix = [addr |-> "10.0.0.0", bits |-> 8] /\ a = "10.1.2.3"
    \/ prefix = [addr |-> "192.168.0.0", bits |-> 16] /\ a = "192.168.1.5"

MatchesFilter(a) == \E i \in 1..Len(negativeFilter) : InRange(negativeFilter[i], a)

Survivors(ev) == SelectSeq(ev.addresses, LAMBDA a : ~MatchesFilter(a))

\* the requests a sequence of events calls for: none for an event whose every
\* address matches, one with the non-matching addresses otherwise
RECURSIVE ExpectedRequests(_)
ExpectedRequests(evs) ==
    IF evs = <<>> THEN <<>>
    ELSE LET ev == Last(evs)
             before == ExpectedRequests(SubSeq(evs, 1, Len(evs) - 1))
         IN  IF \A k \in 1..Len(ev.addresses) : MatchesFilter(ev.addresses[k])
             THEN before
             ELSE Append(before, [node |-> ev.node, addresses |-> Survivors(ev)])

\* C14: the dispatcher enqueues nothing for an event whose every address matches the
\* negative filter, and for any other event exactly one request, holding exactly the
\* non-matching addresses of the event in their order.
C14_OneRequestPerSurvivingEvent ==
    /\ enqueued = ExpectedRequests(handled)
    /\ \A k \in 1..Len(enqueued) : enqueued[k].addresses # <<>>

C14_Witness ==
    /\ negativeFilter = <<[addr |-> "10.0.0.0", bits |-> 8]>>
    /\ handled = <<[node |-> "n1", addresses |-> <<"10.1.2.3">>],
                   [node |-> "n2", addresses |-> <<"10.1.2.3", "192.168.1.5">>]>>
    /\ enqueued = <<[node |-> "n2", addresses |-> <<"192.168.1.5">>]>>

\* C15: whatever the order in which the stream handlers submit requests, no two
\* requests for the same node have their apply steps in flight at the same time.
C15_OneApplyPerNode ==
    \A i, j \in 1..Len(applying) : i # j => applying[i].node # applying[j].node

C15_Witness ==
    /\ inflight >= 2
    /\ Len(applying) = 1
    /\ Len(queue) = 1
    /\ queue[1].node = applying[1].node
    /\ ~ENABLED AnnotatorTake


\* C16: a health-check session does not outlive the attempt that opened it: when the
\* attempt has returned (and so in the wait, at the start of the next attempt and when
\* Health has returned) its stream is finished.
C16_SessionEndsWithAttempt ==
    hpc \in {"ret", "wait", "attempt", "done"} => ~session.open


\* C18: once a step of an attempt has observed the cancellation of the caller's
\* context, Health runs no further attempt: the attempt's return is followed by the
\* return of Health, not by the wait for the next attempt.
C18_CancellationStopsRetrying ==
    attemptErr = "OpenCanceledErr" => hpc \in {"ret", "done"}


\* C17: when one of the three supervised loops returns an error, the group's context
\* is cancelled, the shutdown watcher stops the server, the other loops return and
\* run returns: run is never left waiting on the remaining loops.
C17_LoopFailureEndsRun ==
    /\ [](egErr # "nil" => CtxDone)
    /\ [](egErr # "nil" => <>(server = "stopped"))
    /\ [](egErr # "nil" => <>AllLoopsReturned)
    /\ [](egErr # "nil" => <>(spc \in {"returned", "exited"}))

C17_Witness ==
    /\ ~signalled
    /\ serve = Returned("AcceptErr")
    /\ egErr = "AcceptErr"
    /\ server = "stopped"
    /\ AllLoopsReturned
    /\ spc = "exited"


\* a machine that contributes endpoints: not being deleted, Running or Provisioned
Eligible(machine) == ~machine.deleting /\ machine.phase \in {"Running", "Provisioned"}

\* the positions <<machine, address>> of the InternalIP addresses of eligible machines
Slots(items) ==
    {<<i, j>> \in (1..MaxMachines) \X (1..2) :
        /\ i <= Len(items)
        /\ j <= Len(items[i].addresses)
        /\ Eligible(items[i])
        /\ items[i].addresses[j].type = "InternalIP"}

Before(p, q) == p[1] < q[1] \/ (p[1] = q[1] /\ p[2] < q[2])

Rank(p, S) == Cardinality({q \in S : Before(q, p)}) + 1

IsResolutionOf(nodes, items) ==
    /\ Len(nodes) = Cardinality(Slots(items))
    /\ \A p \in Slots(items) : nodes[Rank(p, Slots(items))] = items[p[1]].addresses[p[2]].address

\* C19: the endpoint list resolved from a machine list holds, in machine order, exactly
\* the InternalIP addresses of the machines that are not being deleted and are Running
\* or Provisioned; other machines and other address types contribute nothing.
C19_EndpointsAreEligibleInternalIPs ==
    /\ npc \in {"listMachineDeployments", "listWorkers"} =>
        IsResolutionOf(controlPlaneNodes, machines)
    /\ npc \in {"newClient", "panic"} => IsResolutionOf(workerNodes, machines)
    /\ (npc = "done" /\ ~cluster.nil) => IsResolutionOf(cluster.workerNodes, machines)

C19_Witness ==
    /\ npc = "newClient"
    /\ machines = <<[deleting |-> FALSE, phase |-> "Pending", addresses |-> <<IntA>>],
                    [deleting |-> FALSE, phase |-> "Provisioned", addresses |-> <<ExtA, IntB>>]>>
    /\ workerNodes = <<"10.0.0.3">>

\* C20: NewCluster returns a Cluster exactly when every step succeeds and (nil, error)
\* otherwise; with every step succeeding and one machine deployment it returns the
\* Cluster, whatever the worker endpoints.
C20_ClusterIffEveryStepSucceeds ==
    /\ npc # "panic"
    /\ npc = "done" => (cluster.nil <=> ncErr # "nil")

=============================================================================
